---- MODULE Spec2Model ----
(***************************************************************************)
(* A model of the leveled logger of go-pkgz/lgr (logger.go, the template   *)
(* based Logger): New and its options, Logf/logf, extractLevel,            *)
(* formatLevel, templateFromOptions, reportCaller and getDump, the         *)
(* package-level Printf of the default logger, with any number of          *)
(* goroutines calling Logf on one shared Logger; the search for the caller *)
(* of the version with CallerIgnore (Logger.caller), and Logf calls made   *)
(* from inside a Logf call through logWriter or the termination callback.  *)
(*                                                                         *)
(* Strings are sequences of bytes; a byte is a one-character string.  A    *)
(* few values that the code never looks into (a path segment, a function   *)
(* name, a template action) are kept as one atom of such a sequence.       *)
(***************************************************************************)
EXTENDS Integers, Sequences, FiniteSets, TLC

\* ------------------------------------------------------------------ bounds

\* goroutines that call Logf concurrently on the shared Logger
NumCallers == 2
\* Logf calls made by each goroutine
MaxCalls == 1
\* an io.Writer takes the bytes of one Write in pieces of at most this many
\* bytes: a Write is not atomic unless the caller makes it so
ChunkSize == 6
\* longest message body of the single-caller specification
MaxBody == 2
\* the clock stops at this many seconds
MaxClock == 1
\* longest list of options given to New
MaxOptions == 3
\* deepest CallerDepth given to New
MaxDepth == 1
\* longest stack a search for the caller walks, but for the two that exhaust it
MaxStack == 6
\* deepest nesting of Logf calls of one goroutine
MaxNest == 2

Callers == 1..NumCallers

\* ------------------------------------------------------------------ strings

HasPrefix(s, prefix) ==
    /\ Len(s) >= Len(prefix)
    /\ SubSeq(s, 1, Len(prefix)) = prefix

HasSuffix(s, suffix) ==
    /\ Len(s) >= Len(suffix)
    /\ SubSeq(s, Len(s) - Len(suffix) + 1, Len(s)) = suffix

\* strings.TrimSuffix
TrimSuffix(s, suffix) ==
    IF HasSuffix(s, suffix) THEN SubSeq(s, 1, Len(s) - Len(suffix)) ELSE s

\* the index of the first occurrence of sub in s at or after position i, 0 if none
RECURSIVE IndexFrom(_, _, _)
IndexFrom(s, sub, i) ==
    IF i + Len(sub) - 1 > Len(s) THEN 0
    ELSE IF SubSeq(s, i, i + Len(sub) - 1) = sub THEN i
    ELSE IndexFrom(s, sub, i + 1)

\* strings.Contains / bytes.Contains
Contains(s, sub) == IndexFrom(s, sub, 1) # 0

\* bytes.Replace(s, old, new, 1): the first occurrence only
ReplaceFirst(s, old, new) ==
    LET i == IndexFrom(s, old, 1) IN
    IF i = 0 THEN s
    ELSE SubSeq(s, 1, i - 1) \o new \o SubSeq(s, i + Len(old), Len(s))

\* strings.Join(parts, sep)
RECURSIVE Join(_, _)
Join(parts, sep) ==
    IF parts = <<>> THEN <<>>
    ELSE IF Len(parts) = 1 THEN parts[1]
    ELSE parts[1] \o sep \o Join(Tail(parts), sep)

RECURSIVE Concat(_)
Concat(ss) == IF ss = <<>> THEN <<>> ELSE ss[1] \o Concat(Tail(ss))

\* the number of occurrences of byte c in s
RECURSIVE Count(_, _)
Count(s, c) ==
    IF s = <<>> THEN 0
    ELSE (IF s[1] = c THEN 1 ELSE 0) + Count(Tail(s), c)

\* ------------------------------------------------------------------ levels

TRACE == <<"T", "R", "A", "C", "E">>
DEBUG == <<"D", "E", "B", "U", "G">>
INFO  == <<"I", "N", "F", "O">>
WARN  == <<"W", "A", "R", "N">>
ERROR == <<"E", "R", "R", "O", "R">>
PANIC == <<"P", "A", "N", "I", "C">>
FATAL == <<"F", "A", "T", "A", "L">>

levels == <<TRACE, DEBUG, INFO, WARN, ERROR, PANIC, FATAL>>

\* the slice written line[from-1:]: the byte after the level token is kept
SliceFrom_KeepDelim(lv, line, from) ==
    IF from > Len(line)
    THEN [level |-> lv, msg |-> <<>>, panic |-> TRUE]
    ELSE [level |-> lv, msg |-> SubSeq(line, from, Len(line)), panic |-> FALSE]

\* line[from:] of Go, from counted from 0: a run-time panic (slice bounds out
\* of range) when from > len(line)
SliceFrom(lv, line, from) ==
    IF from > Len(line)
    THEN [level |-> lv, msg |-> <<>>, panic |-> TRUE]
    ELSE [level |-> lv, msg |-> SubSeq(line, from + 1, Len(line)), panic |-> FALSE]

RECURSIVE extractLevelFrom(_, _)
extractLevelFrom(line, i) ==
    IF i > Len(levels) THEN [level |-> INFO, msg |-> line, panic |-> FALSE]
    ELSE LET lv == levels[i] IN
         IF HasPrefix(line, lv) THEN SliceFrom(lv, line, Len(lv) + 1)
         ELSE IF HasPrefix(line, <<"[">> \o lv \o <<"]">>)
              THEN SliceFrom(lv, line, Len(lv) + 3)
              ELSE extractLevelFrom(line, i + 1)

\* extractLevel of the first design: a line without a level has no level
extractLevel_Unleveled(line) ==
    IF \E i \in 1..Len(levels) :
            \/ HasPrefix(line, levels[i])
            \/ HasPrefix(line, <<"[">> \o levels[i] \o <<"]">>)
    THEN extractLevelFrom(line, 1)
    ELSE [level |-> <<>>, msg |-> line, panic |-> FALSE]

\* extractLevel parses a message with an optional level prefix
extractLevel(line) == extractLevelFrom(line, 1)

\* formatLevel that leaves the level as it is
formatLevel_NoPad(lv) == lv

\* formatLevel aligns the level to 5 chars
formatLevel(lv) ==
    IF lv = <<>> THEN <<>>
    ELSE lv \o (IF Len(lv) = 4 THEN <<" ">> ELSE <<>>)

\* ------------------------------------------------------------------ templates

\* A layout template is a sequence of literal bytes and template actions; an
\* action is one atom, named by its text.
tDT         == "{{.DT.Format \"2006/01/02 15:04:05\"}}"
tDTmsec     == "{{.DT.Format \"2006/01/02 15:04:05.000\"}}"
tLevel      == "{{.Level}}"
tMessage    == "{{.Message}}"
tCallerPkg  == "{{.CallerPkg}}"
tCallerFile == "{{.CallerFile}}"
tCallerFunc == "{{.CallerFunc}}"
tCallerLine == "{{.CallerLine}}"
\* escaped { and } of templateFromOptions
openCallerBrace  == "{{\"{\"}}"
closeCallerBrace == "{{\"}\"}}"
\* an action text/template cannot parse, one that fails on every execution (no
\* such field in layout), and one that fails on a record with a message only
tBadSyntax == "{{{.BadThing}}"
tBadThing  == "{{.BadThing}}"
tBadIfMsg  == "{{if .Message}}{{.BadThing}}{{end}}"

CallerActions == {tCallerPkg, tCallerFile, tCallerFunc, tCallerLine}

Short == <<tDT, " ", tLevel, " ", tMessage>>
WithMsec == <<tDTmsec, " ", tLevel, " ", tMessage>>
FuncDebug == <<tDTmsec, " ", tLevel, " ", "(", tCallerFunc, ")", " ", tMessage>>
FullDebug ==
    <<tDTmsec, " ", tLevel, " ", "(", tCallerFile, ":", tCallerLine, " ",
      tCallerFunc, ")", " ", tMessage>>

Digits == <<"0", "1", "2", "3", "4", "5", "6", "7", "8", "9">>

\* an int as text/template prints it
RECURSIVE Itoa(_)
Itoa(n) ==
    IF n < 10 THEN <<Digits[n + 1]>>
    ELSE Itoa(n \div 10) \o <<Digits[(n % 10) + 1]>>

\* time.Time.Format of the two layouts the logger uses; the clock counts whole
\* seconds, so the millisecond part is always 000
FormatTime(t, withMsec) ==
    <<"@", Digits[t + 1]>> \o (IF withMsec THEN <<".", "000">> ELSE <<>>)

\* the zero value layout{}
EmptyLayout ==
    [DT |-> 0, Level |-> <<>>, Message |-> <<>>, CallerPkg |-> <<>>,
     CallerFile |-> <<>>, CallerFunc |-> <<>>, CallerLine |-> 0]

\* template.Parse: the error of a malformed template
ParseFails(format) == \E i \in 1..Len(format) : format[i] = tBadSyntax

\* what one template action or literal writes for elems; ok is FALSE when
\* its evaluation fails
ExecAction(a, elems) ==
    CASE a = tDT         -> [text |-> FormatTime(elems.DT, FALSE), ok |-> TRUE]
      [] a = tDTmsec     -> [text |-> FormatTime(elems.DT, TRUE), ok |-> TRUE]
      [] a = tLevel      -> [text |-> elems.Level, ok |-> TRUE]
      [] a = tMessage    -> [text |-> elems.Message, ok |-> TRUE]
      [] a = tCallerPkg  -> [text |-> elems.CallerPkg, ok |-> TRUE]
      [] a = tCallerFile -> [text |-> elems.CallerFile, ok |-> TRUE]
      [] a = tCallerFunc -> [text |-> elems.CallerFunc, ok |-> TRUE]
      [] a = tCallerLine -> [text |-> Itoa(elems.CallerLine), ok |-> TRUE]
      [] a = openCallerBrace  -> [text |-> <<"{">>, ok |-> TRUE]
      [] a = closeCallerBrace -> [text |-> <<"}">>, ok |-> TRUE]
      [] a = tBadThing   -> [text |-> <<>>, ok |-> FALSE]
      [] a = tBadIfMsg   -> [text |-> <<>>, ok |-> elems.Message = <<>>]
      [] OTHER           -> [text |-> <<a>>, ok |-> TRUE]

\* template.Execute into a buffer: the output of the actions before a failing
\* one stays in the buffer
RECURSIVE ExecuteFrom(_, _, _, _)
ExecuteFrom(templ, i, elems, buf) ==
    IF i > Len(templ) THEN [buf |-> buf, ok |-> TRUE]
    ELSE LET r == ExecAction(templ[i], elems) IN
         IF r.ok THEN ExecuteFrom(templ, i + 1, elems, buf \o r.text)
         ELSE [buf |-> buf, ok |-> FALSE]

Execute(templ, elems) == ExecuteFrom(templ, 1, elems, <<>>)

\* make template from option flags
templateFromOptions(o) ==
    LET dt == IF o.msec THEN <<tDTmsec>> ELSE <<tDT>>
        level == IF o.levelBraces THEN <<"[", tLevel, "]">> ELSE <<tLevel>>
        callerParts ==
            (IF o.callerFile THEN << <<tCallerFile, ":", tCallerLine>> >> ELSE <<>>)
            \o (IF o.callerFunc THEN << <<tCallerFunc>> >> ELSE <<>>)
            \o (IF o.callerPkg THEN << <<tCallerPkg>> >> ELSE <<>>)
        caller ==
            IF o.callerFile \/ o.callerFunc \/ o.callerPkg
            THEN << <<openCallerBrace>> \o Join(callerParts, <<" ">>) \o <<closeCallerBrace>> >>
            ELSE <<>>
    IN  Join(<<dt, level>> \o caller \o << <<tMessage>> >>, <<" ">>)

\* New without the trial execution of the template on layout{}
New_NoSmoke(o) ==
    LET format0 == IF o.format = <<>> THEN templateFromOptions(o) ELSE o.format
        parseErr == ParseFails(format0)
        format1 == IF parseErr THEN Short ELSE format0
    IN  [dbg |-> o.dbg, trace |-> o.trace, msec |-> o.msec,
         levelBraces |-> o.levelBraces, callerFile |-> o.callerFile,
         callerFunc |-> o.callerFunc, callerPkg |-> o.callerPkg,
         callerDepth |-> o.callerDepth, exits |-> o.exits,
         stdout |-> o.stdout, stderr |-> o.stderr,
         format |-> format1, templ |-> format1,
         callerOn |-> \E i \in 1..Len(format1) : format1[i] \in CallerActions,
         levelBracesOn |-> Contains(format1, <<"[", tLevel, "]">>),
         diag |-> IF parseErr THEN 1 ELSE 0]

\* New makes a Logger from the fields its options have set. An empty format
\* means no Format option. diag counts the diagnostics New prints with
\* fmt.Printf.
New(o) ==
    LET format0 == IF o.format = <<>> THEN templateFromOptions(o) ELSE o.format
        parseErr == ParseFails(format0)
        format1 == IF parseErr THEN Short ELSE format0
        execErr == ~Execute(format1, EmptyLayout).ok
        format2 == IF execErr THEN Short ELSE format1
    IN  [dbg |-> o.dbg, trace |-> o.trace, msec |-> o.msec,
         levelBraces |-> o.levelBraces, callerFile |-> o.callerFile,
         callerFunc |-> o.callerFunc, callerPkg |-> o.callerPkg,
         callerDepth |-> o.callerDepth, exits |-> o.exits,
         stdout |-> o.stdout, stderr |-> o.stderr,
         format |-> format2, templ |-> format2,
         callerOn |-> \E i \in 1..Len(format2) : format2[i] \in CallerActions,
         levelBracesOn |-> Contains(format2, <<"[", tLevel, "]">>),
         diag |-> (IF parseErr THEN 1 ELSE 0) + (IF execErr THEN 1 ELSE 0)]

\* ------------------------------------------------------------------ options

\* An Option, by the name of the function that makes it: arg is the template of
\* Format or the writer of Out and Err, n the depth of CallerDepth.
Opt(name, arg, n) == [name |-> name, arg |-> arg, n |-> n]

Flag(name) == Opt(name, <<>>, 0)
Format(f) == Opt("Format", f, 0)
Out(w) == Opt("Out", <<w>>, 0)
Err(w) == Opt("Err", <<w>>, 0)
CallerDepth(n) == Opt("CallerDepth", <<>>, n)

\* the Logger New starts from: the process streams, os.Exit(1) as l.fatal and
\* the zero value of every other field
Defaults ==
    [dbg |-> FALSE, trace |-> FALSE, msec |-> FALSE, levelBraces |-> FALSE,
     callerFile |-> FALSE, callerFunc |-> FALSE, callerPkg |-> FALSE,
     callerDepth |-> 0, format |-> <<>>, exits |-> TRUE,
     stdout |-> "os.Stdout", stderr |-> "os.Stderr"]

\* the options with a Msec that also clears the format
ApplyOption_MsecClearsFormat(res, opt) ==
    CASE opt.name = "Out"         -> [res EXCEPT !.stdout = opt.arg[1]]
      [] opt.name = "Err"         -> [res EXCEPT !.stderr = opt.arg[1]]
      [] opt.name = "Debug"       -> [res EXCEPT !.dbg = TRUE]
      [] opt.name = "Trace"       -> [res EXCEPT !.dbg = TRUE, !.trace = TRUE]
      [] opt.name = "CallerDepth" -> [res EXCEPT !.callerDepth = opt.n]
      [] opt.name = "Format"      -> [res EXCEPT !.format = opt.arg]
      [] opt.name = "CallerFunc"  -> [res EXCEPT !.callerFunc = TRUE]
      [] opt.name = "CallerPkg"   -> [res EXCEPT !.callerPkg = TRUE]
      [] opt.name = "LevelBraces" -> [res EXCEPT !.levelBraces = TRUE]
      [] opt.name = "CallerFile"  -> [res EXCEPT !.callerFile = TRUE]
      [] opt.name = "Msec"        -> [res EXCEPT !.msec = TRUE, !.format = <<>>]

\* the options with a Trace that does not turn dbg on
ApplyOption_TraceOnly(res, opt) ==
    CASE opt.name = "Out"         -> [res EXCEPT !.stdout = opt.arg[1]]
      [] opt.name = "Err"         -> [res EXCEPT !.stderr = opt.arg[1]]
      [] opt.name = "Debug"       -> [res EXCEPT !.dbg = TRUE]
      [] opt.name = "Trace"       -> [res EXCEPT !.trace = TRUE]
      [] opt.name = "CallerDepth" -> [res EXCEPT !.callerDepth = opt.n]
      [] opt.name = "Format"      -> [res EXCEPT !.format = opt.arg]
      [] opt.name = "CallerFunc"  -> [res EXCEPT !.callerFunc = TRUE]
      [] opt.name = "CallerPkg"   -> [res EXCEPT !.callerPkg = TRUE]
      [] opt.name = "LevelBraces" -> [res EXCEPT !.levelBraces = TRUE]
      [] opt.name = "CallerFile"  -> [res EXCEPT !.callerFile = TRUE]
      [] opt.name = "Msec"        -> [res EXCEPT !.msec = TRUE]

\* opt(&res): what one option sets
ApplyOption(res, opt) ==
    CASE opt.name = "Out"         -> [res EXCEPT !.stdout = opt.arg[1]]
      [] opt.name = "Err"         -> [res EXCEPT !.stderr = opt.arg[1]]
      [] opt.name = "Debug"       -> [res EXCEPT !.dbg = TRUE]
      [] opt.name = "Trace"       -> [res EXCEPT !.dbg = TRUE, !.trace = TRUE]
      [] opt.name = "CallerDepth" -> [res EXCEPT !.callerDepth = opt.n]
      [] opt.name = "Format"      -> [res EXCEPT !.format = opt.arg]
      [] opt.name = "CallerFunc"  -> [res EXCEPT !.callerFunc = TRUE]
      [] opt.name = "CallerPkg"   -> [res EXCEPT !.callerPkg = TRUE]
      [] opt.name = "LevelBraces" -> [res EXCEPT !.levelBraces = TRUE]
      [] opt.name = "CallerFile"  -> [res EXCEPT !.callerFile = TRUE]
      [] opt.name = "Msec"        -> [res EXCEPT !.msec = TRUE]

\* for _, opt := range options { opt(&res) }
RECURSIVE ApplyOptions(_, _)
ApplyOptions(res, options) ==
    IF options = <<>> THEN res
    ELSE ApplyOptions(ApplyOption(res, options[1]), Tail(options))

\* New(options...)
NewWith(options) == New(ApplyOptions(Defaults, options))

\* ------------------------------------------------------------------ call site

\* A stack frame: the file as its "/"-separated segments (absolute paths start
\* with an empty segment), the line, the function as its "/"-separated segments.
\* An unknown frame has no file, line 0 and no function.
NoFrame == [File |-> <<>>, Line |-> 0, Function |-> <<>>]

\* the frames between runtime.Callers and the function that called Logf:
\* runtime.Callers, the caller closure, reportCaller, logf, Logf
InternalFrames == 5

\* runtime.Callers(skip, pcs) with room for one pc, then CallersFrames.Next:
\* appStack holds the frames from the caller of Logf outwards
caller(skip, appStack) ==
    LET i == skip - InternalFrames + 1 IN
    IF i >= 1 /\ i <= Len(appStack) THEN appStack[i] ELSE NoFrame

EmptyCallerInfo == [File |-> <<>>, Line |-> 0, FuncName |-> <<>>, Pkg |-> <<>>]

Seg(s) == IF s = "" THEN <<>> ELSE <<s>>

\* a path of segments as bytes
RECURSIVE JoinPath(_)
JoinPath(segs) ==
    IF segs = <<>> THEN <<>>
    ELSE IF Len(segs) = 1 THEN Seg(segs[1])
    ELSE Seg(segs[1]) \o <<"/">> \o JoinPath(Tail(segs))

\* reportCaller that always reports the caller of Logf
reportCaller_NoDepth(calldepth, appStack) ==
    LET f == caller(2 + 3, appStack)
        n == Len(f.File)
    IN  IF f.File = <<>> \/ f.Line <= 0 \/ f.Function = <<>> THEN EmptyCallerInfo
        ELSE [Pkg |-> IF n = 1 THEN <<".">> ELSE Seg(f.File[n - 1]),
              File |-> IF n > 2 THEN JoinPath(SubSeq(f.File, n - 1, n)) ELSE JoinPath(f.File),
              Line |-> f.Line,
              FuncName |-> Seg(f.Function[Len(f.Function)])]

\* calldepth 0 identifies the caller of Logf
reportCaller(calldepth, appStack) ==
    LET f == caller(calldepth + 2 + 3, appStack)
        n == Len(f.File)
    IN  IF f.File = <<>> \/ f.Line <= 0 \/ f.Function = <<>> THEN EmptyCallerInfo
        ELSE [Pkg |-> IF n = 1 THEN <<".">> ELSE Seg(f.File[n - 1]),
              File |-> IF n > 2 THEN JoinPath(SubSeq(f.File, n - 1, n)) ELSE JoinPath(f.File),
              Line |-> f.Line,
              FuncName |-> Seg(f.Function[Len(f.Function)])]

\* getDump: the stacks of all goroutines, at least the calling one's
getDump == <<"goroutine", "\n">>

\* ------------------------------------------------------------------ logf

\* logf that leaves the padding of the level inside the brackets
RenderRecord_NoBraceFix(l, r, now, appStack) ==
    LET ci == IF l.callerOn THEN reportCaller(l.callerDepth, appStack) ELSE EmptyCallerInfo
        elems == [DT |-> now, Level |-> formatLevel(r.level),
                  Message |-> TrimSuffix(r.msg, <<"\n">>),
                  CallerFunc |-> ci.FuncName, CallerFile |-> ci.File,
                  CallerPkg |-> ci.Pkg, CallerLine |-> ci.Line]
        x == Execute(l.templ, elems)
    IN  [data |-> x.buf \o <<"\n">>, execErr |-> ~x.ok,
         callerCalls |-> IF l.callerOn THEN 1 ELSE 0]

\* logf that does not trim the message
RenderRecord_NoTrim(l, r, now, appStack) ==
    LET ci == IF l.callerOn THEN reportCaller(l.callerDepth, appStack) ELSE EmptyCallerInfo
        elems == [DT |-> now, Level |-> formatLevel(r.level),
                  Message |-> r.msg,
                  CallerFunc |-> ci.FuncName, CallerFile |-> ci.File,
                  CallerPkg |-> ci.Pkg, CallerLine |-> ci.Line]
        x == Execute(l.templ, elems)
        buf == x.buf \o <<"\n">>
        data == IF l.levelBracesOn
                THEN ReplaceFirst(
                         ReplaceFirst(buf, <<"[", "W", "A", "R", "N", " ", "]">>,
                                           <<"[", "W", "A", "R", "N", "]", " ">>),
                         <<"[", "I", "N", "F", "O", " ", "]">>,
                         <<"[", "I", "N", "F", "O", "]", " ">>)
                ELSE buf
    IN  [data |-> data, execErr |-> ~x.ok,
         callerCalls |-> IF l.callerOn THEN 1 ELSE 0]

\* logf that evaluates the caller whatever the layout
RenderRecord_AlwaysCaller(l, r, now, appStack) ==
    LET ci == reportCaller(l.callerDepth, appStack)
        elems == [DT |-> now, Level |-> formatLevel(r.level),
                  Message |-> TrimSuffix(r.msg, <<"\n">>),
                  CallerFunc |-> ci.FuncName, CallerFile |-> ci.File,
                  CallerPkg |-> ci.Pkg, CallerLine |-> ci.Line]
        x == Execute(l.templ, elems)
        buf == x.buf \o <<"\n">>
        data == IF l.levelBracesOn
                THEN ReplaceFirst(
                         ReplaceFirst(buf, <<"[", "W", "A", "R", "N", " ", "]">>,
                                           <<"[", "W", "A", "R", "N", "]", " ">>),
                         <<"[", "I", "N", "F", "O", " ", "]">>,
                         <<"[", "I", "N", "F", "O", "]", " ">>)
                ELSE buf
    IN  [data |-> data, execErr |-> ~x.ok,
         callerCalls |-> 1]

\* logf from the construction of the layout to the bytes it will write:
\* r is the result of extractLevel, now the value of l.now(); callerCalls counts
\* the calls of l.reportCaller
RenderRecord(l, r, now, appStack) ==
    LET ci == IF l.callerOn THEN reportCaller(l.callerDepth, appStack) ELSE EmptyCallerInfo
        elems == [DT |-> now, Level |-> formatLevel(r.level),
                  Message |-> TrimSuffix(r.msg, <<"\n">>),
                  CallerFunc |-> ci.FuncName, CallerFile |-> ci.File,
                  CallerPkg |-> ci.Pkg, CallerLine |-> ci.Line]
        x == Execute(l.templ, elems)
        buf == x.buf \o <<"\n">>
        data == IF l.levelBracesOn
                THEN ReplaceFirst(
                         ReplaceFirst(buf, <<"[", "W", "A", "R", "N", " ", "]">>,
                                           <<"[", "W", "A", "R", "N", "]", " ">>),
                         <<"[", "I", "N", "F", "O", " ", "]">>,
                         <<"[", "I", "N", "F", "O", "]", " ">>)
                ELSE buf
    IN  [data |-> data, execErr |-> ~x.ok,
         callerCalls |-> IF l.callerOn THEN 1 ELSE 0]

\* the filter without its TRACE case
Suppressed_DebugOnly(l, level) == level = DEBUG /\ ~l.dbg

\* DEBUG and TRACE are filtered out by the dbg and trace flags
Suppressed(l, level) ==
    \/ level = DEBUG /\ ~l.dbg
    \/ level = TRACE /\ ~l.trace

\* ------------------------------------------------------------------ state

VARIABLES
    mode,        \* which program runs: "conc", "seq", "opt", "def", "twice", "brace", "reent"
                 \* or "walk"
    opts,        \* the option list New was called with, where the run starts from one
    l,           \* the Logger New returned
    clock,       \* what l.now() returns, in seconds
    lock,        \* l.lock: the goroutine holding it, 0 when free
    out,         \* the bytes the writer l.stdout has received
    err,         \* the bytes the writer l.stderr has received
    fatalCalls,  \* invocations of l.fatal so far
    exited,      \* l.fatal was os.Exit(1) and has ended the process
    diag,        \* diagnostics printed with fmt.Printf so far
    pc,          \* where each goroutine is in its Logf call
    calls,       \* the Logf calls each goroutine has started
    in,          \* the input of each goroutine's last call
    res,         \* what extractLevel returned in it
    data,        \* the bytes logf rendered in it
    pos,         \* the bytes of data the Write in progress has delivered
    wout,        \* the bytes the call has written to l.stdout
    werr,        \* the bytes the call has written to l.stderr
    cb,          \* the invocations of l.fatal the call has made
    severe,      \* the calls so far whose line was a FATAL or PANIC record
    vis,         \* the rendered bytes of every call that was not filtered out
    walk,        \* the search of l.caller for a frame, where the run is one
    resolves,    \* the calls of l.reportCaller the call has made
    nest         \* Logf calls made from inside a Logf call: whether l.fatal
                 \* logs, the suspended calls of each goroutine, and whether
                 \* the call its callback or writer made has returned

\* the variables most steps of a Logf call leave alone
aux == <<walk, resolves, nest>>

vars == <<mode, opts, l, clock, lock, out, err, fatalCalls, exited, diag, pc, calls,
          in, res, data, pos, wout, werr, cb, severe, vis, walk, resolves, nest>>

\* ------------------------------------------------------------------ inputs

\* Options of New. Debug sets dbg, Trace sets dbg and trace.
DebugTrace == {<<FALSE, FALSE>>, <<TRUE, FALSE>>, <<TRUE, TRUE>>}

Options(dt, msec, braces, callers, depth, format, exits) ==
    [dbg |-> dt[1], trace |-> dt[2], msec |-> msec, levelBraces |-> braces,
     callerFile |-> callers, callerFunc |-> callers, callerPkg |-> callers,
     callerDepth |-> depth, format |-> format, exits |-> exits,
     stdout |-> "rout", stderr |-> "rerr"]

\* exits: l.fatal is the default os.Exit(1); otherwise a substituted callback
\* that returns
ConcOptions ==
    {Options(dt, FALSE, FALSE, FALSE, 0, <<>>, exits) :
        dt \in DebugTrace, exits \in BOOLEAN}

\* the depth matters only to a layout with a caller field
SeqOptions ==
    {o \in {Options(dt, msec, braces, callers, depth, format, FALSE) :
                dt \in DebugTrace, msec \in BOOLEAN, braces \in BOOLEAN,
                callers \in BOOLEAN, depth \in 0..MaxDepth,
                format \in {<<>>, <<tDT, " ", tLevel, " ", tBadIfMsg, tMessage>>}} :
        o.callerDepth = 0 \/ (o.callerFile /\ o.format = <<>>)}

\* the stack above Logf
fRun    == [File |-> <<"", "go", "app", "main.go">>, Line |-> 7,
            Function |-> <<"example.com", "app.run">>]
fHelper == [File |-> <<"", "go", "app", "util.go">>, Line |-> 3,
            Function |-> <<"example.com", "app.helper">>]

AppStacks == {<<fHelper, fRun>>, <<NoFrame, fRun>>}

\* the result of a search for the caller that found no frame
NotFound == [file |-> <<>>, line |-> 0, funcName |-> <<>>, ok |-> FALSE]

\* l.fatal does not log and no call is suspended
NoNest == [cbLogs |-> FALSE, saved |-> [p \in Callers |-> <<>>],
           ret |-> [p \in Callers |-> FALSE]]

\* no search is made
NoWalk == [stack |-> <<>>, ignoredCallers |-> {}, start |-> 0, calldepth |-> 0,
           i |-> 0, frames |-> <<>>, seen |-> <<>>, at |-> "none",
           result |-> NotFound]

\* the frame of the package-level Printf, at its call of def.Logf
fPrintf == [File |-> <<"", "go", "lgr", "interface.go">>, Line |-> 26,
            Function |-> <<"github.com", "go-pkgz", "lgr.Printf">>]

\* Printf(format, args...): def.Logf(format, args...), called from appStack
Printf(appStack) == <<fPrintf>> \o appStack

\* A formatted line, fmt.Sprintf(format, args...), by its construction:
\* kind "none": body; "bare": levels[lvl] delim body; "brace": [levels[lvl]]
\* delim body; "part": levels[lvl] without its last letter, then body;
\* "open": [levels[lvl] without the closing bracket, then body.
Line(i) ==
    CASE i.kind = "none"  -> i.body
      [] i.kind = "bare"  -> levels[i.lvl] \o i.delim \o i.body
      [] i.kind = "brace" -> <<"[">> \o levels[i.lvl] \o <<"]">> \o i.delim \o i.body
      [] i.kind = "part"  -> SubSeq(levels[i.lvl], 1, Len(levels[i.lvl]) - 1) \o i.body
      [] i.kind = "open"  -> <<"[">> \o levels[i.lvl] \o i.body

\* entry is the entry point the application calls, stack the frames from the
\* function that calls it outwards.
Input(kind, lvl, delim, body, stack) ==
    [kind |-> kind, lvl |-> lvl, delim |-> delim, body |-> body, stack |-> stack,
     entry |-> "Logf"]

\* the frames above Logf in the call i
LogfStack(i) == IF i.entry = "Printf" THEN Printf(i.stack) ELSE i.stack

NoInput == Input("none", 0, <<>>, <<>>, <<>>)

\* the payload by which the lines of goroutine p are told apart
Payload(p) == <<<<"a", "b", "c", "d", "e">>[p]>>

BodyBytes == {"x", " ", "\n"}

Bodies == UNION {[1..n -> BodyBytes] : n \in 0..MaxBody}

ConcInputs(p) ==
    {Input("none", 0, <<>>, Payload(p), <<fRun>>)}
    \cup {Input(kind, lvl, <<" ">>, Payload(p), <<fRun>>) :
            kind \in {"bare", "brace"}, lvl \in 1..Len(levels)}
    \cup {Input(kind, lvl, <<>>, <<>>, <<fRun>>) :
            kind \in {"bare", "brace"}, lvl \in {2, 3, 7}}

SeqInputs(stacks) ==
    {Input("none", 0, <<>>, body, stack) : body \in Bodies, stack \in stacks}
    \cup {Input(kind, lvl, delim, body, stack) :
            kind \in {"bare", "brace"}, lvl \in 1..Len(levels),
            delim \in {<<>>, <<" ">>}, body \in Bodies, stack \in stacks}
    \cup {Input(kind, lvl, <<>>, body, stack) :
            kind \in {"part", "open"}, lvl \in {3, 5}, body \in Bodies,
            stack \in stacks}

\* the templates of TestLoggerWithInvalidTemplate: one that does not parse,
\* one that fails on execution
BadSyntaxFormat == <<tDT, " ", tBadSyntax, " ", tMessage>>
BadThingFormat  == <<tDT, " ", tBadThing, " ", tMessage>>

\* the options a Logger is made from, and the lists of at most MaxOptions of
\* them, each option once, in every order
OptionSet ==
    {Flag("Debug"), Flag("Trace"), Flag("Msec"), Flag("LevelBraces"),
     Flag("CallerFile"), Format(Short), Format(FuncDebug),
     Format(BadSyntaxFormat), Format(BadThingFormat), Out("buf"), Err("buf")}

OptionLists ==
    UNION {{s \in [1..n -> OptionSet] : \A i, j \in 1..n : s[i] = s[j] => i = j} :
            n \in 0..MaxOptions}

\* every level, bare and in brackets, and a line without one
OptInputs ==
    {Input("none", 0, <<>>, <<"x">>, <<fRun>>)}
    \cup {Input(kind, lvl, <<" ">>, <<"x">>, <<fRun>>) :
            kind \in {"bare", "brace"}, lvl \in 1..Len(levels)}

\* the options the default logger is set up with
DefOptionLists ==
    {<<>>, <<Flag("Debug")>>, <<Flag("Debug"), Format(FullDebug)>>,
     <<Format(FullDebug), CallerDepth(1)>>,
     <<Flag("Trace"), Flag("CallerFile"), Flag("CallerFunc")>>}

\* lines logged through the package-level Printf and through Default().Logf
DefInputs ==
    {[i EXCEPT !.entry = e, !.stack = stack] :
        i \in OptInputs, e \in {"Logf", "Printf"},
        stack \in IF l.callerOn THEN AppStacks ELSE {<<fRun>>}}

TwiceOptions ==
    {Options(dt, msec, braces, FALSE, 0, <<>>, FALSE) :
        dt \in DebugTrace, msec \in BOOLEAN, braces \in BOOLEAN}

\* a message alone, and a message after a level prefix and its delimiter
TwiceInputs ==
    {Input("none", 0, <<>>, body, <<fRun>>) : body \in Bodies}
    \cup {Input(kind, lvl, <<" ">>, body, <<fRun>>) :
            kind \in {"bare", "brace"}, lvl \in 1..Len(levels), body \in Bodies}

\* Loggers that let every level through, with and without LevelBraces
BraceOptions ==
    {Options(<<TRUE, TRUE>>, msec, braces, FALSE, 0, <<>>, FALSE) :
        msec \in BOOLEAN, braces \in BOOLEAN}

\* messages that hold the text of a padded level column in brackets
BraceBodies ==
    {<<"[", "W", "A", "R", "N", " ", "]">>,
     <<"[", "I", "N", "F", "O", " ", "]">>,
     <<"x", " ", "[", "W", "A", "R", "N", " ", "]", " ", "y">>}

\* such a message alone and after every level, bare and in brackets
BraceInputs ==
    {Input("none", 0, <<>>, body, <<fRun>>) : body \in BraceBodies}
    \cup {Input(kind, lvl, <<" ">>, body, <<fRun>>) :
            kind \in {"bare", "brace"}, lvl \in 1..Len(levels), body \in BraceBodies}

\* the stack matters to a call only when the layout has a caller field; the
\* second call of "twice" logs the line of the first followed by a newline
Inputs(p) ==
    CASE mode = "conc"  -> ConcInputs(p)
      [] mode = "seq"   -> SeqInputs(IF l.callerOn THEN AppStacks ELSE {<<fRun>>})
      [] mode = "opt"   -> OptInputs
      [] mode = "def"   -> DefInputs
      [] mode = "brace" -> BraceInputs
      [] mode = "reent" -> OptInputs
      [] mode = "twice" ->
            IF calls[p] = 0 THEN TwiceInputs
            ELSE {[in[p] EXCEPT !.body = @ \o <<"\n">>]}

Active == IF mode = "conc" THEN Callers ELSE {1}

\* the calls a goroutine makes: the single-caller specifications look at one
\* call of every line under every layout, "twice" at two
CallBudget ==
    CASE mode = "conc"  -> MaxCalls
      [] mode = "twice" -> 2
      [] OTHER          -> 1

\* ------------------------------------------------------------------ Init

\* no call was made yet
InitRun ==
    /\ clock = 0
    /\ lock = 0
    /\ out = <<>>
    /\ err = <<>>
    /\ fatalCalls = 0
    /\ exited = FALSE
    /\ pc = [p \in Callers |-> "idle"]
    /\ calls = [p \in Callers |-> 0]
    /\ in = [p \in Callers |-> NoInput]
    /\ res = [p \in Callers |-> [level |-> <<>>, msg |-> <<>>, panic |-> FALSE]]
    /\ data = [p \in Callers |-> <<>>]
    /\ pos = [p \in Callers |-> 0]
    /\ wout = [p \in Callers |-> <<>>]
    /\ werr = [p \in Callers |-> <<>>]
    /\ cb = [p \in Callers |-> 0]
    /\ severe = 0
    /\ vis = <<>>
    /\ resolves = [p \in Callers |-> 0]

\* a Logger with the fields one of options sets
InitWith(m, options) ==
    /\ mode = m
    /\ walk = NoWalk
    /\ nest = NoNest
    /\ opts = <<>>
    /\ \E o \in options : l = New(o) /\ diag = New(o).diag
    /\ InitRun

Init == InitWith("conc", ConcOptions)

InitSeq == InitWith("seq", SeqOptions)

InitTwice == InitWith("twice", TwiceOptions)

InitBrace == InitWith("brace", BraceOptions)

\* l := New(options...), then l.fatal = func() { fatalCalls++ } as the tests do
InitOpt ==
    /\ mode = "opt"
    /\ walk = NoWalk
    /\ nest = NoNest
    /\ \E os \in OptionLists :
        /\ opts = os
        /\ l = [NewWith(os) EXCEPT !.exits = FALSE]
        /\ diag = NewWith(os).diag
    /\ InitRun

\* Setup(options...) replaces the default logger def by New(options...)
Setup(options) == NewWith(options)

\* the default logger after Setup, its l.fatal replaced as in TestDefaultFatal
InitDef ==
    /\ mode = "def"
    /\ walk = NoWalk
    /\ nest = NoNest
    /\ \E os \in DefOptionLists :
        /\ opts = os
        /\ l = [Setup(os) EXCEPT !.exits = FALSE]
        /\ diag = Setup(os).diag
    /\ InitRun

\* ------------------------------------------------------------------ actions

\* a Lock that does not wait
CanLock_NoMutex(holder) == TRUE

\* sync.Mutex.Lock returns only when the mutex is free
CanLock(holder) == holder = 0

\* the switch without the ERROR case
SwitchNext_NoErrorCase(level, step) ==
    CASE step = "stdout" ->
            IF level \in {FATAL, PANIC} THEN "stderr" ELSE "unlock"
      [] step = "stderr" ->
            IF level = FATAL THEN "fatal"
            ELSE IF level = PANIC THEN "dump"
            ELSE "unlock"
      [] step = "dump" -> "fatal"
      [] step = "fatal" -> "unlock"

\* the switch whose FATAL case does not call l.fatal
SwitchNext_NoFatalCall(level, step) ==
    CASE step = "stdout" ->
            IF level \in {ERROR, FATAL, PANIC} THEN "stderr" ELSE "unlock"
      [] step = "stderr" -> IF level = PANIC THEN "dump" ELSE "unlock"
      [] step = "dump" -> "fatal"
      [] step = "fatal" -> "unlock"

\* the switch whose PANIC case does not write the dump
SwitchNext_NoDump(level, step) ==
    CASE step = "stdout" ->
            IF level \in {ERROR, FATAL, PANIC} THEN "stderr" ELSE "unlock"
      [] step = "stderr" ->
            IF level \in {FATAL, PANIC} THEN "fatal" ELSE "unlock"
      [] step = "dump" -> "fatal"
      [] step = "fatal" -> "unlock"

\* the switch whose FATAL and PANIC cases call l.fatal before they write to
\* l.stderr
SwitchNext_FatalFirst(level, step) ==
    CASE step = "stdout" ->
            IF level \in {FATAL, PANIC} THEN "fatal"
            ELSE IF level = ERROR THEN "stderr"
            ELSE "unlock"
      [] step = "fatal" -> "stderr"
      [] step = "stderr" -> IF level = PANIC THEN "dump" ELSE "unlock"
      [] step = "dump" -> "unlock"

\* the switch whose FATAL case writes the dump as the PANIC case does
SwitchNext_FatalDump(level, step) ==
    CASE step = "stdout" ->
            IF level \in {ERROR, FATAL, PANIC} THEN "stderr" ELSE "unlock"
      [] step = "stderr" ->
            IF level \in {FATAL, PANIC} THEN "dump" ELSE "unlock"
      [] step = "dump" -> "fatal"
      [] step = "fatal" -> "unlock"

\* the switch on the level after the write to l.stdout: the step that follows
\* step for a record of this level
SwitchNext(level, step) ==
    CASE step = "stdout" ->
            IF level \in {ERROR, FATAL, PANIC} THEN "stderr" ELSE "unlock"
      [] step = "stderr" ->
            IF level = FATAL THEN "fatal"
            ELSE IF level = PANIC THEN "dump"
            ELSE "unlock"
      [] step = "dump" -> "fatal"
      [] step = "fatal" -> "unlock"

Min(a, b) == IF a < b THEN a ELSE b

\* l.stdout and l.stderr are one io.Writer: what is written through either
\* field arrives in the same place
SameWriter(lg) == lg.stdout = lg.stderr

\* the next piece of bytes a Write in progress delivers, from offset at
Chunk(bytes, at) == SubSeq(bytes, at + 1, Min(at + ChunkSize, Len(bytes)))

\* Logf up to l.lock.Lock(): extractLevel, the level filter, the caller, the
\* layout and its rendering. Slicing past the end of the line panics.
LogfFormat(p) ==
    /\ ~exited
    /\ p \in Active
    /\ pc[p] = "idle"
    /\ calls[p] < CallBudget
    /\ \E i \in Inputs(p) :
        LET r == extractLevel(Line(i))
            rr == RenderRecord(l, r, clock, LogfStack(i))
            shown == ~r.panic /\ ~Suppressed(l, r.level)
        IN  /\ in' = [in EXCEPT ![p] = i]
            /\ res' = [res EXCEPT ![p] = r]
            /\ pc' = [pc EXCEPT ![p] =
                        IF r.panic THEN "panicked"
                        ELSE IF Suppressed(l, r.level) THEN "idle"
                        ELSE "lock"]
            /\ data' = [data EXCEPT ![p] = IF shown THEN rr.data ELSE <<>>]
            /\ vis' = IF shown THEN Append(vis, rr.data) ELSE vis
            /\ diag' = IF shown /\ rr.execErr THEN diag + 1 ELSE diag
            /\ resolves' = [resolves EXCEPT ![p] = IF shown THEN rr.callerCalls ELSE 0]
            /\ severe' = IF ~r.panic /\ i.kind \in {"bare", "brace"}
                             /\ levels[i.lvl] \in {PANIC, FATAL}
                          THEN severe + 1 ELSE severe
    /\ calls' = [calls EXCEPT ![p] = @ + 1]
    /\ pos' = [pos EXCEPT ![p] = 0]
    /\ wout' = [wout EXCEPT ![p] = <<>>]
    /\ werr' = [werr EXCEPT ![p] = <<>>]
    /\ cb' = [cb EXCEPT ![p] = 0]
    /\ UNCHANGED <<walk, nest>>
    /\ UNCHANGED <<mode, opts, l, clock, lock, out, err, fatalCalls, exited>>

\* l.lock.Lock()
Lock(p) ==
    /\ ~exited
    /\ pc[p] = "lock"
    /\ CanLock(lock)
    /\ lock' = p
    /\ pc' = [pc EXCEPT ![p] = "stdout"]
    /\ UNCHANGED aux
    /\ UNCHANGED <<mode, opts, l, clock, out, err, fatalCalls, exited, diag, calls,
                   in, res, data, pos, wout, werr, cb, severe, vis>>

\* l.stdout.Write(data), one piece of it, by a writer that stores the bytes
WriteStdout(p) ==
    /\ ~exited
    /\ pc[p] = "stdout"
    /\ l.stdout # "self"
    /\ LET c == Chunk(data[p], pos[p])
           done == pos[p] + Len(c) >= Len(data[p])
       IN  /\ out' = out \o c
           /\ err' = IF SameWriter(l) THEN out \o c ELSE err
           /\ wout' = [wout EXCEPT ![p] = @ \o c]
           /\ pos' = [pos EXCEPT ![p] = IF done THEN 0 ELSE @ + Len(c)]
           /\ pc' = [pc EXCEPT ![p] =
                        IF done THEN SwitchNext(res[p].level, "stdout") ELSE @]
    /\ UNCHANGED aux
    /\ UNCHANGED <<mode, opts, l, clock, lock, fatalCalls, exited, diag, calls,
                   in, res, data, werr, cb, severe, vis>>

\* l.stderr.Write(data), one piece of it
WriteStderr(p) ==
    /\ ~exited
    /\ pc[p] = "stderr"
    /\ LET c == Chunk(data[p], pos[p])
           done == pos[p] + Len(c) >= Len(data[p])
       IN  /\ err' = err \o c
           /\ out' = IF SameWriter(l) THEN err \o c ELSE out
           /\ werr' = [werr EXCEPT ![p] = @ \o c]
           /\ pos' = [pos EXCEPT ![p] = IF done THEN 0 ELSE @ + Len(c)]
           /\ pc' = [pc EXCEPT ![p] =
                        IF done THEN SwitchNext(res[p].level, "stderr") ELSE @]
    /\ UNCHANGED aux
    /\ UNCHANGED <<mode, opts, l, clock, lock, fatalCalls, exited, diag, calls,
                   in, res, data, wout, cb, severe, vis>>

\* l.stderr.Write(getDump())
WriteDump(p) ==
    /\ ~exited
    /\ pc[p] = "dump"
    /\ err' = err \o getDump
    /\ out' = IF SameWriter(l) THEN err \o getDump ELSE out
    /\ werr' = [werr EXCEPT ![p] = @ \o getDump]
    /\ pc' = [pc EXCEPT ![p] = SwitchNext(res[p].level, "dump")]
    /\ UNCHANGED aux
    /\ UNCHANGED <<mode, opts, l, clock, lock, fatalCalls, exited, diag, calls,
                   in, res, data, pos, wout, cb, severe, vis>>

\* l.fatal() is called: os.Exit(1) ends the process, a substituted callback runs
CallFatal(p) ==
    /\ ~exited
    /\ pc[p] = "fatal"
    /\ fatalCalls' = fatalCalls + 1
    /\ cb' = [cb EXCEPT ![p] = @ + 1]
    /\ exited' = l.exits
    /\ pc' = [pc EXCEPT ![p] = "infatal"]
    /\ UNCHANGED aux
    /\ UNCHANGED <<mode, opts, l, clock, lock, out, err, diag, calls, in, res, data,
                   pos, wout, werr, severe, vis>>

\* the substituted l.fatal returns, after the Logf call it makes if it logs
FatalReturns(p) ==
    /\ ~exited
    /\ pc[p] = "infatal"
    /\ nest.cbLogs => nest.ret[p]
    /\ pc' = [pc EXCEPT ![p] = SwitchNext(res[p].level, "fatal")]
    /\ UNCHANGED aux
    /\ UNCHANGED <<mode, opts, l, clock, lock, out, err, fatalCalls, exited, diag,
                   calls, in, res, data, pos, wout, werr, cb, severe, vis>>

\* logf that returns without l.lock.Unlock()
Unlock_KeepsLock(p) ==
    /\ ~exited
    /\ pc[p] = "unlock"
    /\ lock' = lock
    /\ IF nest.saved[p] = <<>>
       THEN /\ pc' = [pc EXCEPT ![p] = "idle"]
            /\ UNCHANGED <<res, data, pos, nest>>
       ELSE LET f == Head(nest.saved[p]) IN
            /\ pc' = [pc EXCEPT ![p] = f.pc]
            /\ res' = [res EXCEPT ![p] = f.res]
            /\ data' = [data EXCEPT ![p] = f.data]
            /\ pos' = [pos EXCEPT ![p] = f.pos]
            /\ nest' = [nest EXCEPT !.saved[p] = Tail(@), !.ret[p] = TRUE]
    /\ UNCHANGED <<walk, resolves>>
    /\ UNCHANGED <<mode, opts, l, clock, out, err, fatalCalls, exited, diag, calls,
                   in, wout, werr, cb, severe, vis>>

\* l.lock.Unlock(), and logf and Logf return: to the application, or into the
\* callback or the Write that made the call
Unlock(p) ==
    /\ ~exited
    /\ pc[p] = "unlock"
    /\ lock' = 0
    /\ IF nest.saved[p] = <<>>
       THEN /\ pc' = [pc EXCEPT ![p] = "idle"]
            /\ UNCHANGED <<res, data, pos, nest>>
       ELSE LET f == Head(nest.saved[p]) IN
            /\ pc' = [pc EXCEPT ![p] = f.pc]
            /\ res' = [res EXCEPT ![p] = f.res]
            /\ data' = [data EXCEPT ![p] = f.data]
            /\ pos' = [pos EXCEPT ![p] = f.pos]
            /\ nest' = [nest EXCEPT !.saved[p] = Tail(@), !.ret[p] = TRUE]
    /\ UNCHANGED <<walk, resolves>>
    /\ UNCHANGED <<mode, opts, l, clock, out, err, fatalCalls, exited, diag, calls,
                   in, wout, werr, cb, severe, vis>>

\* time passes
Tick ==
    /\ ~exited
    /\ clock < MaxClock
    /\ clock' = clock + 1
    /\ UNCHANGED aux
    /\ UNCHANGED <<mode, opts, l, lock, out, err, fatalCalls, exited, diag, pc, calls,
                   in, res, data, pos, wout, werr, cb, severe, vis>>

\* ------------------------------------------------------------------ the search for the caller

\* var pcs [5]uintptr: the frames one runtime.Callers fetches
BatchSize == 5

\* for i := 0; i < 10; i++: the batches a search fetches at most
MaxBatches == 10

\* check(frame): a frame without a file, a positive line or a function is no
\* answer
check(frame) ==
    IF frame.File = <<>> \/ frame.Line <= 0 \/ frame.Function = <<>> THEN NotFound
    ELSE [file |-> frame.File, line |-> frame.Line, funcName |-> frame.Function,
          ok |-> TRUE]

\* n := runtime.Callers(calldepth, pcs[:]) and runtime.CallersFrames(pcs[:n]):
\* the positions in appStack of the frames fetched. appStack holds the frames
\* from the caller of Logf outwards; the frames skipped before it are those of
\* runtime.Callers, caller, reportCaller, logf and Logf.
CallersFrames(calldepth, appStack) ==
    LET first == calldepth - InternalFrames + 1
        last == Min(first + BatchSize - 1, Len(appStack))
    IN  IF first < 1 \/ last < first THEN <<>>
        ELSE [j \in 1..(last - first + 1) |-> first + j - 1]

\* a function the application wraps Logf in, to be named to CallerIgnore
fnLogWrap == <<"example.com", "app.logWrap">>

\* New() and New(CallerIgnore("example.com/app.logWrap"))
IgnoreSets == {{}, {fnLogWrap}}

\* the frame at position i of a stack: of the application, of the wrapper,
\* one whose file is not known, one of which nothing is known
WalkFrame(kind, i) ==
    CASE kind = "app"    -> [fRun EXCEPT !.Line = i]
      [] kind = "wrap"   -> [fHelper EXCEPT !.Line = i, !.Function = fnLogWrap]
      [] kind = "nofile" -> [fRun EXCEPT !.Line = i, !.File = <<>>]
      [] OTHER           -> NoFrame

FrameKinds == {"app", "wrap", "nofile", "unknown"}

\* every stack of at most MaxStack frames, and the stacks of as many wrapper
\* frames as a search can fetch, or one fewer, under a frame of the application
WalkStacks ==
    UNION {{[i \in 1..n |-> WalkFrame(ks[i], i)] : ks \in [1..n -> FrameKinds]} :
            n \in 0..MaxStack}
    \cup {[i \in 1..(n + 1) |-> WalkFrame(IF i <= n THEN "wrap" ELSE "app", i)] :
            n \in {MaxBatches * BatchSize - 1, MaxBatches * BatchSize}}

\* reportCaller(2) calls l.caller(calldepth + 1); a deeper start is the same
\* search from further out
WalkDepths == 3..(3 + MaxDepth)

\* l.caller(calldepth) is about to run on a Logger with an ignore set
InitWalk ==
    /\ mode = "walk"
    /\ nest = NoNest
    /\ opts = <<>>
    /\ l = NewWith(<<>>)
    /\ diag = NewWith(<<>>).diag
    /\ InitRun
    /\ \E st \in WalkStacks, ig \in IgnoreSets, d \in WalkDepths :
        walk = [NoWalk EXCEPT !.stack = st, !.ignoredCallers = ig, !.start = d,
                              !.calldepth = d, !.at = "enter"]

\* what a Logf call and the clock leave alone
run == <<mode, opts, l, clock, lock, out, err, fatalCalls, exited, diag, pc, calls,
         in, res, data, pos, wout, werr, cb, severe, vis, resolves, nest>>

\* calldepth += 2
callerEnter ==
    /\ walk.at = "enter"
    /\ walk' = [walk EXCEPT !.calldepth = @ + 2, !.at = "for"]
    /\ UNCHANGED run

\* the head of the loop and the fetch of a batch: the search gives up after
\* MaxBatches batches and when no frame is left
callerFetch ==
    /\ walk.at = "for"
    /\ LET fs == CallersFrames(walk.calldepth, walk.stack)
       IN  walk' = IF walk.i >= MaxBatches \/ Len(fs) < 1
                   THEN [walk EXCEPT !.at = "return", !.result = NotFound]
                   ELSE [walk EXCEPT !.at = "frames", !.frames = fs]
    /\ UNCHANGED run

\* frame, more := frames.Next() that moves on to the same frame again
callerNext_NoAdvance ==
    /\ walk.at = "frames"
    /\ LET k == Head(walk.frames)
           frame == walk.stack[k]
           more == Len(walk.frames) > 1
       IN  walk' =
             IF frame.Function \notin walk.ignoredCallers
             THEN [walk EXCEPT !.seen = Append(@, k),
                               !.at = "return", !.result = check(frame)]
             ELSE IF ~more
             THEN [walk EXCEPT !.seen = Append(@, k),
                               !.at = "for", !.i = @ + 1, !.frames = <<>>]
             ELSE [walk EXCEPT !.seen = Append(@, k),
                               !.frames = Tail(@)]
    /\ UNCHANGED run

\* frame, more := frames.Next(); calldepth++; a frame that is not ignored ends
\* the search with check(frame); after the last frame of the batch the loop
\* goes round
callerNext ==
    /\ walk.at = "frames"
    /\ LET k == Head(walk.frames)
           frame == walk.stack[k]
           more == Len(walk.frames) > 1
       IN  walk' =
             IF frame.Function \notin walk.ignoredCallers
             THEN [walk EXCEPT !.calldepth = @ + 1, !.seen = Append(@, k),
                               !.at = "return", !.result = check(frame)]
             ELSE IF ~more
             THEN [walk EXCEPT !.calldepth = @ + 1, !.seen = Append(@, k),
                               !.at = "for", !.i = @ + 1, !.frames = <<>>]
             ELSE [walk EXCEPT !.calldepth = @ + 1, !.seen = Append(@, k),
                               !.frames = Tail(@)]
    /\ UNCHANGED run

WalkNext == callerEnter \/ callerFetch \/ callerNext

Step ==
    \E p \in Callers :
        \/ LogfFormat(p)
        \/ Lock(p)
        \/ WriteStdout(p)
        \/ WriteStderr(p)
        \/ WriteDump(p)
        \/ CallFatal(p)
        \/ FatalReturns(p)
        \/ Unlock(p)

Next == Step \/ Tick

\* ------------------------------------------------------------------ Logf from inside Logf

\* a writer that hands what it is given back to the Logger: l.stdout is the
\* logWriter of ToStdLogger(l, ""), or a substituted l.fatal that logs
ReentOptions ==
    {[Options(dt, FALSE, FALSE, FALSE, 0, <<>>, FALSE) EXCEPT !.stdout = w] :
        dt \in DebugTrace, w \in {"rout", "self"}}

\* what a logging l.fatal passes to l.Logf
CallbackLines == {INFO \o <<" ", "n">>, DEBUG \o <<" ", "n">>}

InitReent ==
    /\ mode = "reent"
    /\ opts = <<>>
    /\ walk = NoWalk
    /\ \E o \in ReentOptions : l = New(o) /\ diag = New(o).diag
    /\ \E b \in BOOLEAN : nest = [NoNest EXCEPT !.cbLogs = b]
    /\ InitRun

\* the Logf call goroutine p makes while its own call is at "at": logf up to
\* l.lock.Lock(). The call in progress is suspended until the new one returns;
\* a filtered record returns at once.
NestedLogf(p, line, at) ==
    LET r == extractLevel(line)
        rr == RenderRecord(l, r, clock, in[p].stack)
        shown == ~r.panic /\ ~Suppressed(l, r.level)
        frame == [pc |-> at, res |-> res[p], data |-> data[p], pos |-> pos[p]]
    IN  /\ pc' = [pc EXCEPT ![p] = IF r.panic THEN "panicked"
                                   ELSE IF shown THEN "lock" ELSE at]
        /\ res' = [res EXCEPT ![p] = IF shown THEN r ELSE @]
        /\ data' = [data EXCEPT ![p] = IF shown THEN rr.data ELSE @]
        /\ pos' = [pos EXCEPT ![p] = IF shown THEN 0 ELSE @]
        /\ nest' = IF shown THEN [nest EXCEPT !.saved[p] = <<frame>> \o @]
                   ELSE [nest EXCEPT !.ret[p] = TRUE]
        /\ vis' = IF shown THEN Append(vis, rr.data) ELSE vis
        /\ diag' = IF shown /\ rr.execErr THEN diag + 1 ELSE diag
        /\ UNCHANGED <<mode, opts, l, clock, lock, out, err, fatalCalls, exited,
                       calls, in, wout, werr, cb, severe, walk, resolves>>

\* the substituted l.fatal calls l.Logf
FatalLogf(p) ==
    /\ ~exited
    /\ pc[p] = "infatal"
    /\ nest.cbLogs /\ ~nest.ret[p]
    /\ Len(nest.saved[p]) < MaxNest
    /\ \E line \in CallbackLines : NestedLogf(p, line, "infatal")

\* logWriter.Write(p): w.l.Logf(strings.TrimSuffix(string(p), "\n")), and
\* return len(p), nil once that call has returned
WriteLogWriter(p) ==
    /\ ~exited
    /\ pc[p] = "stdout"
    /\ l.stdout = "self"
    /\ Len(nest.saved[p]) < MaxNest
    /\ IF ~nest.ret[p]
       THEN NestedLogf(p, TrimSuffix(data[p], <<"\n">>), "stdout")
       ELSE /\ pc' = [pc EXCEPT ![p] = SwitchNext(res[p].level, "stdout")]
            /\ nest' = [nest EXCEPT !.ret[p] = FALSE]
            /\ UNCHANGED <<mode, opts, l, clock, lock, out, err, fatalCalls,
                           exited, diag, calls, in, res, data, pos, wout, werr,
                           cb, severe, vis, walk, resolves>>

StepReent ==
    \/ Step
    \/ \E p \in Callers : FatalLogf(p) \/ WriteLogWriter(p)

\* NumCallers goroutines log concurrently while time passes
Spec == Init /\ [][Next]_vars

\* one goroutine logs, with more layouts and more lines, at a fixed time
SpecSeq == InitSeq /\ [][Step]_vars

\* one goroutine logs on a Logger made from a list of options
SpecOpt == InitOpt /\ [][Step]_vars

\* one goroutine logs on the default logger, through Printf or Default().Logf
SpecDef == InitDef /\ [][Step]_vars

\* one goroutine logs a line and then the same line followed by a newline
SpecTwice == InitTwice /\ [][Step]_vars

\* one goroutine logs on a Logger whose callback or writer logs on it again
SpecReent == InitReent /\ [][StepReent]_vars

\* one goroutine logs a message that holds a level column in brackets
SpecBrace == InitBrace /\ [][Step]_vars

\* the steps of the call of goroutine p after its line is rendered
Proceed(p) ==
    \/ Lock(p)
    \/ WriteStdout(p)
    \/ WriteStderr(p)
    \/ WriteDump(p)
    \/ FatalReturns(p)
    \/ CallFatal(p)
    \/ Unlock(p)

\* Spec with a scheduler that lets every goroutine take its next step, writers
\* whose Write returns and a substituted callback that returns
SpecLive == Init /\ [][Next]_vars /\ \A p \in Callers : WF_vars(Proceed(p))

\* one search for the caller, on every stack and from every depth
SpecWalk == InitWalk /\ [][WalkNext]_vars

\* ------------------------------------------------------------------ claims

\* what the line of the last call of p was built as
IsRecord(p, lv) ==
    /\ in[p].kind \in {"bare", "brace"}
    /\ levels[in[p].lvl] = lv

\* the last call of p has returned to its caller
Returned(p) == calls[p] > 0 /\ pc[p] = "idle"

\* p is between l.lock.Lock() and l.lock.Unlock()
InSection(p) == pc[p] \in {"stdout", "stderr", "dump", "fatal", "infatal", "unlock"}

\* no call is in progress and none was cut short
AllReturned == \A p \in Callers : pc[p] = "idle"

IsPrefix(s, t) == Len(s) <= Len(t) /\ SubSeq(t, 1, Len(s)) = s

\* the arrangements of the elements of a sequence
Arrangements(s) ==
    {[i \in 1..Len(s) |-> s[f[i]]] :
        f \in {g \in [1..Len(s) -> 1..Len(s)] :
                  \A i, j \in 1..Len(s) : g[i] = g[j] => i = j}}

\* C1: the primary stream holds whole records only: at any time it is the
\* records of some of the calls that were not filtered out, one after the other
\* in some order, followed by the part of one record whose Write is in progress;
\* once all calls have returned it is exactly the records of these N calls in
\* some order, N lines each ended by a newline.
C1_NoInterleaving ==
    \E a \in Arrangements(vis) :
        /\ IsPrefix(out, Concat(a))
        /\ AllReturned =>
            /\ out = Concat(a)
            /\ Count(out, "\n") = Len(vis)
            /\ \A i \in 1..Len(vis) : HasSuffix(vis[i], <<"\n">>)

\* C1: all callers have logged a record and returned, and the records are on the
\* stream in the opposite order of their rendering
C1_Witness ==
    /\ AllReturned
    /\ Len(vis) = NumCallers
    /\ \A p \in Callers : calls[p] > 0 /\ Contains(out, Payload(p))
    /\ vis[1] # vis[2]
    /\ IsPrefix(vis[2] \o vis[1], out)

\* C2: a caller between the write to the primary stream and the return of the
\* termination callback holds the mutex, so there is at most one such caller
\* and at most one callback running.
C2_MutexHeld ==
    /\ \A p \in Callers : InSection(p) => lock = p
    /\ Cardinality({p \in Callers : InSection(p)}) <= 1
    /\ Cardinality({p \in Callers : pc[p] = "infatal"}) <= 1

\* C2: the callback of one caller runs while another caller waits for the mutex
\* with a FATAL record of its own
C2_Witness ==
    \E p, q \in Callers :
        /\ pc[p] = "infatal"
        /\ pc[q] = "lock"
        /\ IsRecord(q, FATAL)

\* C3: a DEBUG call with the debug flag off and a TRACE call with the trace flag
\* off ends having written nothing to either stream and without the callback,
\* and as long as no other call was made both streams are empty; with the flag on
\* the call that returns has written its one record to the primary stream.
C3_Filtered ==
    /\ \A p \in Callers :
        /\ (calls[p] > 0 /\ ((IsRecord(p, DEBUG) /\ ~l.dbg) \/ (IsRecord(p, TRACE) /\ ~l.trace))) =>
            /\ pc[p] \in {"idle", "panicked"}
            /\ wout[p] = <<>> /\ werr[p] = <<>> /\ cb[p] = 0
        /\ (Returned(p) /\ ((IsRecord(p, DEBUG) /\ l.dbg) \/ (IsRecord(p, TRACE) /\ l.trace))) =>
            /\ wout[p] # <<>> /\ wout[p] = data[p]
            /\ Count(wout[p], "\n") = 1 /\ HasSuffix(wout[p], <<"\n">>)
            /\ Contains(wout[p], Payload(p))
    /\ (\A p \in Callers :
            /\ calls[p] <= 1
            /\ calls[p] = 1 => (IsRecord(p, DEBUG) /\ ~l.dbg) \/ (IsRecord(p, TRACE) /\ ~l.trace))
        => out = <<>> /\ err = <<>> /\ fatalCalls = 0

\* C3: with Debug but not Trace, one caller's TRACE record was filtered out and
\* another caller's DEBUG record is on the primary stream
C3_Witness ==
    /\ l.dbg /\ ~l.trace
    /\ \E p, q \in Callers :
        /\ Returned(p) /\ IsRecord(p, TRACE) /\ wout[p] = <<>>
        /\ Returned(q) /\ IsRecord(q, DEBUG) /\ out = wout[q] /\ out # <<>>

\* C4: an ERROR call has written to the secondary stream the bytes it wrote to
\* the primary stream; a call below ERROR writes nothing to the secondary
\* stream.
C4_ErrorEcho ==
    \A p \in Callers :
        /\ (Returned(p) /\ IsRecord(p, ERROR)) => (werr[p] = wout[p] /\ wout[p] # <<>>)
        /\ (calls[p] > 0 /\ pc[p] # "panicked" /\ ~IsRecord(p, ERROR)
                /\ ~IsRecord(p, FATAL) /\ ~IsRecord(p, PANIC)) => werr[p] = <<>>

\* C4: an ERROR call and a WARN call have both returned
C4_Witness ==
    \E p, q \in Callers :
        /\ Returned(p) /\ IsRecord(p, ERROR) /\ werr[p] = wout[p] /\ err = werr[p]
        /\ Returned(q) /\ IsRecord(q, WARN) /\ wout[q] # <<>> /\ werr[q] = <<>>

\* C5: a returned FATAL or PANIC call has invoked the termination callback once,
\* every other call never; once all calls have returned the callback was
\* invoked as many times as FATAL and PANIC calls were made.
C5_OneCallback ==
    /\ \A p \in Callers :
        /\ cb[p] <= 1
        /\ Returned(p) =>
            cb[p] = IF IsRecord(p, FATAL) \/ IsRecord(p, PANIC) THEN 1 ELSE 0
        /\ (calls[p] > 0 /\ ~IsRecord(p, FATAL) /\ ~IsRecord(p, PANIC)) => cb[p] = 0
    /\ fatalCalls <= severe
    /\ AllReturned => fatalCalls = severe

\* C5: a FATAL and a PANIC call have returned
C5_Witness ==
    /\ AllReturned
    /\ fatalCalls = 2
    /\ \E p, q \in Callers : IsRecord(p, FATAL) /\ IsRecord(q, PANIC)

C7_FlushedBeforeFatal ==
    \A p \in Callers :
        cb[p] > 0 =>
            /\ wout[p] = data[p]
            /\ HasSuffix(data[p], <<"\n">>)
            /\ werr[p] = data[p] \o (IF IsRecord(p, PANIC) THEN getDump ELSE <<>>)

\* C7: the callback of a PANIC call has returned and the call has released the
\* mutex
C7_Witness ==
    \E p \in Callers :
        /\ Returned(p) /\ IsRecord(p, PANIC) /\ cb[p] = 1
        /\ err = data[p] \o getDump

\* C8 as stated: no Logf call ends in a run-time panic.
C8_AlwaysReturns == \A p \in Callers : pc[p] # "panicked"

\* C9: for a line made of a level token, bare or in brackets, one space and a
\* body, extractLevel returns that level and the body.
C9_LevelAndBody ==
    \A p \in Callers :
        (calls[p] > 0 /\ in[p].kind \in {"bare", "brace"} /\ in[p].delim = <<" ">>) =>
            /\ ~res[p].panic
            /\ res[p].level = levels[in[p].lvl]
            /\ res[p].msg = in[p].body

\* C9: a bracketed TRACE line whose body starts with a space and ends with a
\* newline
C9_Witness ==
    /\ calls[1] > 0
    /\ in[1].kind = "brace" /\ levels[in[1].lvl] = TRACE /\ in[1].delim = <<" ">>
    /\ in[1].body = <<" ", "\n">>
    /\ res[1].msg = <<" ", "\n">>

\* the template of the logger executes on every record
ExecutesAlways == \A i \in 1..Len(l.templ) : l.templ[i] \notin {tBadThing, tBadIfMsg}

\* C10: for a line that starts with no level token extractLevel returns INFO
\* and the line itself, and the call writes a record with the INFO level whose
\* message is the line (without the one newline logf trims from its end).
C10_DefaultInfo ==
    \A p \in Callers :
        (calls[p] > 0 /\ in[p].kind \in {"none", "part", "open"}) =>
            /\ ~res[p].panic
            /\ res[p].level = INFO
            /\ res[p].msg = Line(in[p])
            /\ (Returned(p) /\ ExecutesAlways) =>
                /\ Contains(wout[p], INFO)
                /\ HasSuffix(wout[p], TrimSuffix(Line(in[p]), <<"\n">>) \o <<"\n">>)
                /\ werr[p] = <<>>

\* C10: a line that starts with an incomplete level token was written as an INFO
\* record
C10_Witness ==
    /\ Returned(1)
    /\ in[1].kind = "part" /\ in[1].body = <<"x">>
    /\ HasSuffix(wout[1], <<"E", "R", "R", "O", "x", "\n">>)
    /\ Contains(wout[1], <<"I", "N", "F", "O", " ", " ", "E">>)

\* the level of the record the last line of p was built as
InLevel(p) == IF in[p].kind \in {"bare", "brace"} THEN levels[in[p].lvl] ELSE INFO

\* the flags of the Logger let the record of p through
Visible(p) ==
    /\ InLevel(p) = DEBUG => l.dbg
    /\ InLevel(p) = TRACE => l.trace

\* the level as a column of five characters
LevelColumn(lv) == IF lv \in {INFO, WARN} THEN lv \o <<" ">> ELSE lv

\* a record in the built-in minimal layout: the timestamp to the second, the
\* level column and the message
ShortLine(lv, msg) ==
    <<"@", Digits[clock + 1], " ">> \o LevelColumn(lv) \o <<" ">> \o msg \o <<"\n">>

\* the template of the last Format among the options given, <<>> if none
LastFormat(os) ==
    LET at == {i \in 1..Len(os) : os[i].name = "Format"} IN
    IF at = {} THEN <<>>
    ELSE os[CHOOSE i \in at : \A j \in at : j <= i].arg

Given(os, name) == \E i \in 1..Len(os) : os[i].name = name

\* C11: when the template given through Format does not parse, or fails on
\* execution, no call on the Logger New returns panics, and every call that
\* returns with a visible record has written exactly that record in the minimal
\* layout: second-precision timestamp, level column, message, newline. The
\* layout flags given with the template change nothing in it.
C11_FallbackLayout ==
    LastFormat(opts) \in {BadSyntaxFormat, BadThingFormat} =>
        \A p \in Callers :
            /\ pc[p] # "panicked"
            /\ (Returned(p) /\ Visible(p)) =>
                /\ wout[p] = ShortLine(InLevel(p), in[p].body)
                /\ wout[p] # <<"\n">>

\* C11: New was given a template that fails on execution, then Msec, and a
\* WARN record was written in the minimal layout
C11_Witness ==
    /\ opts = <<Format(BadThingFormat), Flag("Msec")>>
    /\ Returned(1) /\ IsRecord(1, WARN)
    /\ out = <<"@", "0", " ", "W", "A", "R", "N", " ", " ", "x", "\n">>
    /\ diag > 0

\* C12: when a valid template is given through Format, with layout flags
\* before or after it, every visible record is rendered by that template alone:
\* Short gives timestamp, level column and message; FuncDebug gives the
\* timestamp with milliseconds, the level column, the function in parentheses
\* and the message.
C12_FormatWins ==
    \A p \in Callers :
        (Returned(p) /\ Visible(p)) =>
            /\ LastFormat(opts) = Short =>
                wout[p] = ShortLine(InLevel(p), in[p].body)
            /\ LastFormat(opts) = FuncDebug =>
                wout[p] = <<"@", "0", ".", "000", " ">> \o LevelColumn(InLevel(p))
                          \o <<" ", "(", "app.run", ")", " ">> \o in[p].body \o <<"\n">>

\* C12: the options of TestLoggerOverwriteFormat, Msec before and CallerFile
\* after Format(Short), and also Format(FuncDebug) followed by LevelBraces and
\* Msec
C12_Witness ==
    /\ Returned(1) /\ IsRecord(1, INFO) /\ wout[1] # <<>>
    /\ \/ opts = <<Flag("Msec"), Format(Short), Flag("CallerFile")>>
       \/ opts = <<Format(FuncDebug), Flag("LevelBraces"), Flag("Msec")>>
    /\ ~Contains(wout[1], <<"[">>) /\ ~Contains(wout[1], <<"{">>)

\* the call site of an application frame as the flags CallerFile, CallerFunc
\* and CallerPkg lay it out: the last two elements of the file path, the line,
\* the function without its import path, the directory of the file
SiteOf(f) ==
    <<"{", f.File[3], "/", f.File[4], ":", Digits[f.Line + 1], " ", f.Function[2],
      " ", f.File[3], "}">>

\* C13: with a caller field in the layout and CallerDepth(n), a record reports
\* the frame n levels above the function that called Logf, when that frame is
\* known: for n = 0 the file, line and function of the Logf call, for n = 1 those
\* of the call of the function that contains it.
C13_CallerDepth ==
    \A p \in Callers :
        (/\ Returned(p) /\ Visible(p) /\ ExecutesAlways
         /\ l.callerFile /\ l.callerFunc /\ l.callerPkg /\ l.callerOn
         /\ l.callerDepth + 1 <= Len(in[p].stack)) =>
            LET f == in[p].stack[l.callerDepth + 1] IN
            f # NoFrame => Contains(wout[p], SiteOf(f))

\* C13: with CallerDepth(1) a record logged from helper, called from run,
\* reports the line of run
C13_Witness ==
    /\ Returned(1) /\ l.callerDepth = 1
    /\ in[1].stack = <<fHelper, fRun>>
    /\ Contains(wout[1], <<"{", "app", "/", "main.go", ":", "7", " ", "app.run", " ", "app", "}">>)
    /\ ~Contains(wout[1], <<"util.go">>)

\* the file and line, and the function, of an application frame as FullDebug
\* and the caller flags both lay them out
FileLineOf(f) == <<f.File[3], "/", f.File[4], ":", Digits[f.Line + 1], " ">>

\* C14 as stated: a visible record of the default logger, logged through the
\* package-level Printf or through Logf, reports the file, line and function of
\* the application frame CallerDepth levels above the function that called the
\* entry point, and no frame of the logging package.
C14_SameCallSite ==
    \A p \in Callers :
        (/\ Returned(p) /\ Visible(p) /\ l.callerOn
         /\ l.callerDepth + 1 <= Len(in[p].stack)
         /\ in[p].stack[l.callerDepth + 1] # NoFrame) =>
            LET f == in[p].stack[l.callerDepth + 1] IN
            /\ Contains(wout[p], FileLineOf(f))
            /\ Contains(wout[p], <<f.Function[2]>>)
            /\ ~Contains(wout[p], <<"lgr.Printf">>)

\* C15 as stated: when Out and Err were given the same writer, the writer holds
\* the line of a returned ERROR or FATAL call once, and a FATAL call has invoked
\* the termination callback once.
C15_WrittenOnce ==
    \A p \in Callers :
        (/\ Returned(p)
         /\ Out("buf") \in {opts[i] : i \in 1..Len(opts)}
         /\ Err("buf") \in {opts[i] : i \in 1..Len(opts)}
         /\ (IsRecord(p, ERROR) \/ IsRecord(p, FATAL))) =>
            /\ out = wout[p]
            /\ Count(out, "\n") = 1
            /\ IsRecord(p, FATAL) => cb[p] = 1

Emitted(p) ==
    /\ Returned(p)
    /\ wout[p] # <<>> /\ IsPrefix(wout[p], out)
    /\ Count(wout[p], "\n") = 1
    /\ Contains(wout[p], InLevel(p))
    /\ HasSuffix(wout[p], in[p].body \o <<"\n">>)

\* the last call of p has returned and has written nothing
Dropped(p) == Returned(p) /\ wout[p] = <<>> /\ out = <<>> /\ err = <<>>

\* C17: of the calls that have returned, a TRACE record was emitted when Trace
\* was among the options and dropped otherwise; a DEBUG record was emitted when
\* Trace or Debug was among the options and dropped otherwise; a record of any
\* other level, and a line without a level, was emitted whatever the options.
C17_TraceEnablesDebug ==
    \A p \in Callers :
        Returned(p) =>
            /\ IsRecord(p, TRACE) =>
                IF Given(opts, "Trace") THEN Emitted(p) ELSE Dropped(p)
            /\ IsRecord(p, DEBUG) =>
                IF Given(opts, "Trace") \/ Given(opts, "Debug")
                THEN Emitted(p) ELSE Dropped(p)
            /\ InLevel(p) \notin {TRACE, DEBUG} => Emitted(p)

\* C17: New was given Trace and not Debug, and a DEBUG record was emitted
C17_Witness ==
    /\ Given(opts, "Trace") /\ ~Given(opts, "Debug")
    /\ IsRecord(1, DEBUG) /\ Emitted(1)

\* C18 as stated: for a line made of a level token, bare or in brackets, and a
\* body that follows it without a space, extractLevel returns that level and the
\* whole body, and the call returns having written a record that ends with the
\* body.
C18_NoCharLost ==
    \A p \in Callers :
        (/\ calls[p] > 0 /\ in[p].kind \in {"bare", "brace"}
         /\ in[p].delim = <<>> /\ in[p].body # <<>> /\ in[p].body[1] = "x") =>
            /\ ~res[p].panic
            /\ res[p].level = levels[in[p].lvl]
            /\ res[p].msg = in[p].body
            /\ (Returned(p) /\ Visible(p) /\ ExecutesAlways) =>
                HasSuffix(wout[p], TrimSuffix(in[p].body, <<"\n">>) \o <<"\n">>)

\* the goroutine has logged a line with message M and then the same line
\* followed by a newline, both calls have returned and the level is let through
LoggedTwice == calls[1] = 2 /\ Returned(1) /\ Visible(1)

\* the message M of the first of the two lines
FirstBody == SubSeq(in[1].body, 1, Len(in[1].body) - 1)

\* C19 as stated: the line with message M and the line with M followed by one
\* newline give the same bytes, which end in exactly one newline.
C19_NewlineIdempotent ==
    LoggedTwice =>
        /\ Len(vis) = 2
        /\ vis[2] = vis[1]
        /\ out = vis[1] \o vis[2]
        /\ HasSuffix(vis[2], <<"\n">>) /\ ~HasSuffix(vis[2], <<"\n", "\n">>)

\* C19, amended: when M does not itself end in a newline the two lines give the
\* same bytes, which end in exactly one newline; when M ends in a newline only
\* one newline is trimmed and the output of the second line is that of the
\* first followed by a newline.
C19_TrimsOneNewline ==
    LoggedTwice =>
        /\ Len(vis) = 2
        /\ out = vis[1] \o vis[2]
        /\ wout[1] = vis[2]
        /\ HasSuffix(vis[1], <<"\n">>)
        /\ IF HasSuffix(FirstBody, <<"\n">>)
           THEN vis[2] = vis[1] \o <<"\n">>
           ELSE /\ vis[2] = vis[1]
                /\ ~HasSuffix(vis[2], <<"\n", "\n">>)

\* C19: "[WARN] x" and then "[WARN] x\n" were logged and the stream holds the
\* same line twice
C19_Witness ==
    /\ LoggedTwice /\ IsRecord(1, WARN) /\ in[1].kind = "brace"
    /\ in[1].body = <<"x", "\n">>
    /\ Len(vis) = 2 /\ vis[1] = vis[2]
    /\ out = vis[1] \o vis[1]
    /\ HasSuffix(vis[1], <<" ", "x", "\n">>)

\* the last call of p has returned from logging "[WARN] x" on a Logger made
\* with LevelBraces
BracedWarn(p) ==
    /\ Returned(p) /\ l.levelBraces /\ l.levelBracesOn
    /\ in[p].kind = "brace" /\ levels[in[p].lvl] = WARN
    /\ in[p].delim = <<" ">> /\ in[p].body = <<"x">>

\* C20 as stated: the line written for "[WARN] x" contains "[WARN] x" and does
\* not contain "[WARN ] x".
C20_SingleSpace ==
    \A p \in Callers :
        BracedWarn(p) =>
            /\ Contains(wout[p], <<"[", "W", "A", "R", "N", "]", " ", "x">>)
            /\ ~Contains(wout[p], <<"[", "W", "A", "R", "N", " ", "]", " ", "x">>)

\* C20, amended: the line written for "[WARN] x" contains "[WARN]" followed by
\* two spaces, the padding space of the level column moved behind the closing
\* bracket and the separating space, ends with " x" and does not contain
\* "[WARN ]"; when the layout has no call site it contains "[WARN]  x".
C20_PaddingOutside ==
    \A p \in Callers :
        BracedWarn(p) =>
            /\ Contains(wout[p], <<"[", "W", "A", "R", "N", "]", " ", " ">>)
            /\ HasSuffix(wout[p], <<" ", "x", "\n">>)
            /\ ~Contains(wout[p], <<"[", "W", "A", "R", "N", " ", "]">>)
            /\ Count(wout[p], "[") = 1 /\ Count(wout[p], "]") = 1
            /\ ~l.callerOn =>
                Contains(wout[p], <<"[", "W", "A", "R", "N", "]", " ", " ", "x", "\n">>)

\* C20: "[WARN] x" was logged with LevelBraces and Msec and no caller
C20_Witness ==
    /\ BracedWarn(1) /\ l.msec /\ ~l.callerOn
    /\ out = <<"@", "0", ".", "000", " ", "[", "W", "A", "R", "N", "]", " ", " ", "x", "\n">>

\* the positions of a stack, from the one a search starts at outwards, whose
\* function is not in the ignore set; l.caller(3) starts at the caller of Logf
Unignored ==
    {k \in 1..Len(walk.stack) :
        k >= walk.start - 2 /\ walk.stack[k].Function \notin walk.ignoredCallers}

\* the position nearest to the start among them
FirstUnignored == CHOOSE k \in Unignored : \A j \in Unignored : k <= j

\* the frame at position k has a file, a positive line and a function
Complete(k) ==
    /\ walk.stack[k].File # <<>>
    /\ walk.stack[k].Line > 0
    /\ walk.stack[k].Function # <<>>

\* C21: the search examines the frames from its starting depth outwards one by
\* one, each once and none left out, also from one batch of 5 to the next; when
\* the first frame whose function is not ignored lies within 10 batches of 5
\* and has a file, a line and a function, that frame is what it returns.
C21_FirstUnignored ==
    /\ \A j \in 1..Len(walk.seen) : walk.seen[j] = walk.start - 2 + j - 1
    /\ (/\ walk.at = "return"
        /\ Unignored # {}
        /\ FirstUnignored < walk.start - 2 + 50
        /\ Complete(FirstUnignored))
       => /\ walk.result.ok
          /\ walk.result.line = FirstUnignored
          /\ walk.result.file = walk.stack[FirstUnignored].File
          /\ walk.result.funcName = walk.stack[FirstUnignored].Function
          /\ Len(walk.seen) = FirstUnignored - (walk.start - 2) + 1

\* C21: five ignored wrapper frames were skipped and the sixth frame, fetched
\* in the second batch, was returned
C21_Witness ==
    /\ walk.at = "return" /\ walk.result.ok
    /\ walk.start = 3
    /\ walk.ignoredCallers = {fnLogWrap}
    /\ walk.seen = <<1, 2, 3, 4, 5, 6>>
    /\ walk.result.line = 6
    /\ walk.result.funcName = <<"example.com", "app.run">>

\* the positions whose frame is not ignored and has a file, a line and a
\* function
Qualifying == {k \in Unignored : Complete(k)}

\* C22: a frame that is not ignored but lacks a file, a positive line or a
\* function fails for itself only and the search goes on: the result is the
\* first frame within reach that is not ignored and lacks nothing.
C22_ContinuesPastUnknown ==
    (/\ walk.at = "return"
     /\ \E k \in Qualifying : k < walk.start - 2 + 50)
    => /\ walk.result.ok
       /\ walk.result.line = CHOOSE k \in Qualifying : \A j \in Qualifying : k <= j

\* C23: extractLevel takes the token and the one delimiter byte after it off the
\* line when there is one; of a line that is exactly a token, "WARN" or
\* "[WARN]", it returns that level and an empty message and reads nothing past
\* the end of the line.
C23_ExactToken ==
    \A p \in Callers :
        (calls[p] > 0 /\ in[p].kind \in {"bare", "brace"}) =>
            /\ in[p].delim = <<" ">> =>
                 /\ ~res[p].panic
                 /\ res[p].level = levels[in[p].lvl]
                 /\ res[p].msg = in[p].body
            /\ (in[p].delim = <<>> /\ in[p].body = <<>>) =>
                 /\ ~res[p].panic
                 /\ pc[p] # "panicked"
                 /\ res[p].level = levels[in[p].lvl]
                 /\ res[p].msg = <<>>

\* the layout New ends up with has a caller field: the template given last
\* through Format when it is a good one (of those given here only FuncDebug has
\* a caller field), the minimal layout when it is a bad one, the layout of the
\* flags when none was given
CallerInLayout(os) ==
    IF LastFormat(os) = <<>> THEN Given(os, "CallerFile")
    ELSE LastFormat(os) = <<tDTmsec, " ", tLevel, " ", "(", tCallerFunc, ")", " ", tMessage>>

\* C24: at every moment of a run the caller-needed flag of the Logger is what
\* the layout New ended up with, fallback included, makes it, so it is fixed in
\* New and never changes; a Logf call evaluates the caller at most once, and
\* only when the flag is set and the record is not a DEBUG or TRACE record that
\* the flags filter out.
C24_CallerOnlyWhenNeeded ==
    /\ l.callerOn = CallerInLayout(opts)
    /\ \A p \in Callers :
        /\ resolves[p] \in {0, 1}
        /\ resolves[p] = 1 =>
            /\ CallerInLayout(opts)
            /\ calls[p] > 0
            /\ InLevel(p) = DEBUG => (Given(opts, "Debug") \/ Given(opts, "Trace"))
            /\ InLevel(p) = TRACE => Given(opts, "Trace")

\* C24: CallerFile was given with a template that fails on execution, the
\* Logger fell back to the minimal layout and a WARN record was written without
\* an evaluation of the caller
C24_Witness ==
    /\ opts = <<Flag("CallerFile"), Format(BadThingFormat)>>
    /\ ~l.callerOn
    /\ Returned(1) /\ IsRecord(1, WARN)
    /\ wout[1] # <<>>
    /\ resolves[1] = 0

\* the level column of a record: the level padded with spaces to five
\* characters; with level braces the level in brackets and the padding behind
\* the closing bracket, seven characters
PaddedColumn(lv, braces) ==
    LET pad == IF lv \in {<<"I", "N", "F", "O">>, <<"W", "A", "R", "N">>}
               THEN <<" ">> ELSE <<>>
    IN  IF braces THEN <<"[">> \o lv \o <<"]">> \o pad ELSE lv \o pad

\* the bytes of a record in front of its call site or message, in the layout
\* the flags make
ColumnPrefix(lv, braces, msec) ==
    <<"@", "0">> \o (IF msec THEN <<".", "000">> ELSE <<>>) \o <<" ">>
    \o PaddedColumn(lv, braces) \o <<" ">>

\* C25: in the layout made from the flags, the record of every call that
\* returned after writing starts with the timestamp, a space, the level column
\* and a space; the column is 5 characters wide for each of the seven levels, 7
\* with level braces, the padding then behind the closing bracket; without a
\* call site the message follows at once, so it starts at the same column
\* whatever the level.
C25_LevelColumn ==
    \A p \in Callers :
        (/\ Returned(p) /\ wout[p] # <<>>
         /\ in[p].kind \in {"bare", "brace"} /\ in[p].delim = <<" ">>
         /\ ~Contains(l.format, <<tBadIfMsg>>))
        => LET pre == ColumnPrefix(levels[in[p].lvl], l.levelBraces, l.msec)
               body == in[p].body
           IN  /\ Len(PaddedColumn(levels[in[p].lvl], l.levelBraces))
                    = IF l.levelBraces THEN 7 ELSE 5
               /\ IsPrefix(pre, wout[p])
               /\ ~l.callerOn =>
                    \/ wout[p] = pre \o body \o <<"\n">>
                    \/ HasSuffix(body, <<"\n">>) /\ wout[p] = pre \o body

\* C25: "[ERROR] x" was logged with LevelBraces: the column has no padding and
\* the message starts where it does after "[WARN] "
C25_Witness ==
    /\ Returned(1) /\ IsRecord(1, ERROR) /\ in[1].kind = "brace"
    /\ l.levelBraces /\ ~l.msec /\ ~l.callerOn
    /\ out = <<"@", "0", " ", "[", "E", "R", "R", "O", "R", "]", " ", "x", "\n">>

\* C26: the timestamps of the records on the primary stream, read in the order
\* of the stream, never go back: a record stamped with a later second is not
\* followed by one stamped with an earlier second.
C26_TimestampsInOrder ==
    \A i, j \in 1..Len(out) :
        (i < j /\ out[i] = "@" /\ out[j] = "@" /\ j + 1 <= Len(out)) =>
            ~(out[i + 1] = "1" /\ out[j + 1] = "0")

\* the call of p is past the rendering of its line and has not returned
InProgress(p) == pc[p] \in {"lock", "stdout", "stderr", "dump", "fatal", "infatal", "unlock"}

\* C27: with writes and a substituted termination callback that return, every
\* Logf call in progress eventually returns, whatever the other callers do, and
\* whenever no call is in progress the mutex is free, also after a FATAL or
\* PANIC call.
C27_EveryCallReturns ==
    /\ [](AllReturned => lock = 0)
    /\ \A p \in Callers : (InProgress(p) /\ ~l.exits) ~> Returned(p)

\* C27: a FATAL call whose callback returned has returned, and the other caller
\* has then logged its record through the same mutex
C27_Witness ==
    /\ ~l.exits /\ AllReturned /\ lock = 0
    /\ IsRecord(1, FATAL) /\ cb[1] = 1 /\ fatalCalls = 1
    /\ IsRecord(2, WARN) /\ wout[2] # <<>>
    /\ out = wout[1] \o wout[2]

\* C28: the record written for a level token, a space and a message ends with
\* a space, the message byte for byte and a newline, also when the message
\* holds "[WARN ]" or "[INFO ]" and whatever the level of the record.
C28_BodyUntouched ==
    \A p \in Callers :
        (/\ Returned(p) /\ wout[p] # <<>>
         /\ in[p].kind \in {"bare", "brace"} /\ in[p].delim = <<" ">>
         /\ ~HasSuffix(in[p].body, <<"\n">>))
        => HasSuffix(wout[p], <<" ">> \o in[p].body \o <<"\n">>)

\* the lines of s that hold the level ERROR, in their order; cur is the part of
\* the line read so far, an unfinished last line is left out
RECURSIVE KeepErrorLines(_, _)
KeepErrorLines(s, cur) ==
    IF s = <<>> THEN <<>>
    ELSE LET line == Append(cur, Head(s)) IN
         IF Head(s) = "\n"
         THEN (IF Contains(line, <<"E", "R", "R", "O", "R">>) THEN line ELSE <<>>)
              \o KeepErrorLines(Tail(s), <<>>)
         ELSE KeepErrorLines(Tail(s), line)

\* C29: as long as no FATAL or PANIC record is logged, the secondary stream is
\* at any time the beginning of what the ERROR records of the primary stream
\* make in their order there, so the ERROR records have the same order on both
\* streams; once all calls have returned it is exactly the primary stream
\* restricted to its ERROR records.
C29_SameOrder ==
    severe = 0 =>
        /\ IsPrefix(err, KeepErrorLines(out, <<>>))
        /\ AllReturned => err = KeepErrorLines(out, <<>>)

\* C29: two callers have logged an ERROR record each, and both streams hold the
\* record of the second caller before that of the first
C29_Witness ==
    /\ AllReturned /\ severe = 0
    /\ IsRecord(1, ERROR) /\ IsRecord(2, ERROR)
    /\ wout[1] # <<>> /\ wout[2] # <<>>
    /\ werr[1] = wout[1] /\ werr[2] = wout[2]
    /\ out = wout[2] \o wout[1]
    /\ err = wout[2] \o wout[1]

\* C30: a Logf call made on the Logger from inside its own termination callback
\* or from inside the Write of one of its streams completes: no goroutine waits
\* for the mutex while it holds the mutex itself, a wait that nothing can end.
C30_ReentrantCompletes ==
    \A p \in Callers : ~(pc[p] = "lock" /\ lock = p)

====
